---- MODULE Spec2Model ----
(***************************************************************************)
(* Model of wireguard-keygen (src/keygen.ts): generatePrivateKey,          *)
(* derivePublicKey, validatePublicKey and generateWireguardKeyPair.        *)
(*                                                                         *)
(* A JavaScript string is a sequence of one-character strings, a Buffer a  *)
(* sequence of bytes 0..255.  The library has no state of its own; the     *)
(* variables hold the last call (operation, argument, outcome, entropy     *)
(* drawn, curve invocations), one derivePublicKey call the caller kept and *)
(* whether other calls were made since, so that properties of calls and of *)
(* pairs of calls are state properties.                                    *)
(***************************************************************************)
EXTENDS Integers, Sequences, FiniteSets

VARIABLES op, arg, ret, entropy, curveCalls, probe, between, curve

vars == <<op, arg, ret, entropy, curveCalls, probe, between, curve>>

----------------------------------------------------------------------------
(* Program constants *)

\* randomBytes(32); privateKeyBytes.length !== 32; decoded.length === 32
KeyLen == 32

\* publicKey.length !== 44
KeyChars == 44

ErrKeyLength == "Private key must be 32 bytes long"

(* Bounds of the model *)

\* argument strings have a body of 0..MaxShort characters, or ...
MaxShort == 3
\* ... of a number of characters within Slack of the 43 data characters of a key
Slack == 2
\* number of stand-ins for the X25519 base-point multiplication
NumCurves == 2
\* the random source varies the last byte of the buffer and the first VaryPos
VaryPos == 1

----------------------------------------------------------------------------
(* Node's Buffer base64 codec, as used through Buffer.from(s, 'base64') and *)
(* buf.toString('base64').                                                  *)

\* the standard alphabet, value v at index v + 1
Alphabet ==
  << "A","B","C","D","E","F","G","H","I","J","K","L","M","N","O","P",
     "Q","R","S","T","U","V","W","X","Y","Z","a","b","c","d","e","f",
     "g","h","i","j","k","l","m","n","o","p","q","r","s","t","u","v",
     "w","x","y","z","0","1","2","3","4","5","6","7","8","9","+","/" >>

StdChars == { Alphabet[i] : i \in 1..64 }

\* characters the decoder maps to a 6-bit value: the standard alphabet and
\* the URL-safe '-' and '_'
LegalChars == StdChars \cup {"-", "_"}

\* the decoder's table: 6-bit value of a legal character
unbase64 ==
  [c \in LegalChars |->
     IF c = "-" THEN 62
     ELSE IF c = "_" THEN 63
     ELSE (CHOOSE i \in 1..64 : Alphabet[i] = c) - 1]

Min(a, b) == IF a < b THEN a ELSE b

\* index of the first '=' of s, Len(s) + 1 when there is none
FirstPad(s) ==
  IF \E i \in 1..Len(s) : s[i] = "="
  THEN CHOOSE i \in 1..Len(s) : s[i] = "=" /\ \A j \in 1..(i - 1) : s[j] # "="
  ELSE Len(s) + 1

\* the 6-bit values the decoder consumes: it skips every character that is
\* not legal and stops at the first '='
Sextets(s) ==
  LET stop == FirstPad(s)
      data == SelectSeq(SubSeq(s, 1, stop - 1), LAMBDA c : c \in LegalChars)
  IN [i \in 1..Len(data) |-> unbase64[data[i]]]

\* size of the buffer allocated for the decoded string: up to two trailing
\* '=' are not counted, the rest are 3 bytes per 4 characters
base64ByteLength(s) ==
  LET n  == Len(s)
      p1 == IF n >= 1 /\ s[n] = "=" THEN 1 ELSE 0
      p2 == IF n >= 2 /\ s[n - 1] = "=" THEN 1 ELSE 0
  IN ((n - p1 - p2) * 3) \div 4

\* Buffer.from(s, 'base64'): never throws; the buffer holds the bytes
\* actually decoded
BufferFrom(s) ==
  LET v == Sextets(s)
      n == Min(base64ByteLength(s), (Len(v) * 3) \div 4)
  IN [k \in 1..n |->
        LET bit == (k - 1) * 8
            j   == (bit \div 6) + 1
            off == bit % 6
        IN ((v[j] * 64 + v[j + 1]) \div (2 ^ (4 - off))) % 256]

\* variant: the encoding without its '=' padding
ToBase64Unpadded(b) ==
  LET m == Len(b)
  IN [i \in 1..((8 * m + 5) \div 6) |->
        LET bit == (i - 1) * 6
            j   == (bit \div 8) + 1
            off == bit % 8
            nxt == IF j + 1 <= m THEN b[j + 1] ELSE 0
        IN Alphabet[(((b[j] * 256 + nxt) \div (2 ^ (10 - off))) % 64) + 1]]

\* buf.toString('base64'): standard alphabet, padded with '=' to a multiple
\* of four characters
ToBase64(b) ==
  LET m     == Len(b)
      data  == (8 * m + 5) \div 6
      total == 4 * ((m + 2) \div 3)
  IN [i \in 1..total |->
        IF i > data THEN "="
        ELSE LET bit == (i - 1) * 6
                 j   == (bit \div 8) + 1
                 off == bit % 8
                 nxt == IF j + 1 <= m THEN b[j + 1] ELSE 0
             IN Alphabet[(((b[j] * 256 + nxt) \div (2 ^ (10 - off))) % 64) + 1]]

----------------------------------------------------------------------------
(* Outcomes of a call: what it returned or threw, and how many times it    *)
(* invoked x25519.getPublicKey.                                            *)

NoKey == << >>

Outcome(kind, err, value, flag, privateKey, publicKey, calls) ==
  [kind |-> kind, err |-> err, value |-> value, flag |-> flag,
   privateKey |-> privateKey, publicKey |-> publicKey, calls |-> calls]

Throw(msg, calls)      == Outcome("throw", msg, NoKey, FALSE, NoKey, NoKey, calls)
RetString(s, calls)    == Outcome("string", "", s, FALSE, NoKey, NoKey, calls)
RetBoolean(b)          == Outcome("boolean", "", NoKey, b, NoKey, NoKey, 0)
RetPair(priv, pub, calls) == Outcome("pair", "", NoKey, FALSE, priv, pub, calls)
NoOutcome              == Outcome("none", "", NoKey, FALSE, NoKey, NoKey, 0)

----------------------------------------------------------------------------
(* The functions of src/keygen.ts *)

\* x25519.getPublicKey of @noble/curves: a fixed, deterministic map from a
\* 32-byte scalar to a 32-byte point, consumed as a black box.  The model
\* runs under each of NumCurves stand-ins, selected by the variable curve.
getPublicKey(bytes) ==
  [i \in 1..KeyLen |->
     (bytes[((i + curve) % KeyLen) + 1] * (2 * curve + 1) + curve * i) % 256]

\* randomBytes(32) followed by toString('base64'); rnd is the buffer the
\* random source returned
generatePrivateKey(rnd) == RetString(ToBase64(rnd), 0)

\* variant: only too short a key is refused
derivePublicKeyAtLeast(privateKeyStr) ==
  LET privateKeyBytes == BufferFrom(privateKeyStr)
  IN IF Len(privateKeyBytes) < KeyLen
     THEN Throw(ErrKeyLength, 0)
     ELSE RetString(ToBase64(getPublicKey(privateKeyBytes)), 1)

\* variant: the public key derived last is returned again
derivePublicKeyCached(privateKeyStr) ==
  LET privateKeyBytes == BufferFrom(privateKeyStr)
  IN IF Len(privateKeyBytes) # KeyLen
     THEN Throw(ErrKeyLength, 0)
     ELSE IF op = "derivePublicKey" /\ ret.kind = "string"
     THEN RetString(ret.value, 0)
     ELSE RetString(ToBase64(getPublicKey(privateKeyBytes)), 1)

derivePublicKey(privateKeyStr) ==
  LET privateKeyBytes == BufferFrom(privateKeyStr)
  IN IF Len(privateKeyBytes) # KeyLen
     THEN Throw(ErrKeyLength, 0)
     ELSE RetString(ToBase64(getPublicKey(privateKeyBytes)), 1)

\* variant: the length check of derivePublicKey, throwing
validatePublicKeyThrowing(publicKey) ==
  IF Len(BufferFrom(publicKey)) # KeyLen
  THEN Throw(ErrKeyLength, 0)
  ELSE RetBoolean(TRUE)

\* variant: the string length compared with the 43 data characters
validatePublicKeyDataChars(publicKey) ==
  IF Len(publicKey) # KeyChars - 1
  THEN RetBoolean(FALSE)
  ELSE RetBoolean(Len(BufferFrom(publicKey)) = KeyLen)

\* the try block cannot throw (Buffer.from never does), so the catch
\* branch's false is never taken
validatePublicKey(publicKey) ==
  IF Len(publicKey) # KeyChars
  THEN RetBoolean(FALSE)
  ELSE RetBoolean(Len(BufferFrom(publicKey)) = KeyLen)

\* variant: the private key returned is drawn a second time
generateWireguardKeyPairRedraw(rnd) ==
  LET privateKey == generatePrivateKey(rnd)
      second     == generatePrivateKey([rnd EXCEPT ![1] = 255 - @])
      publicKey  == derivePublicKey(privateKey.value)
  IN IF publicKey.kind = "throw"
     THEN Throw(publicKey.err, publicKey.calls)
     ELSE RetPair(second.value, publicKey.value, publicKey.calls)

\* a throw of derivePublicKey is not caught and leaves the function
generateWireguardKeyPair(rnd) ==
  LET privateKey == generatePrivateKey(rnd)
      publicKey  == derivePublicKey(privateKey.value)
  IN IF publicKey.kind = "throw"
     THEN Throw(publicKey.err, publicKey.calls)
     ELSE RetPair(privateKey.value, publicKey.value, publicKey.calls)

----------------------------------------------------------------------------
(* Inputs *)

\* n characters of the standard alphabet, not all alike
Body(n) == [i \in 1..n |-> Alphabet[((7 * i) % 64) + 1]]

DataChars == KeyChars - 1

BodyLens ==
  (0..MaxShort) \cup {KeyChars \div 2} \cup ((DataChars - Slack)..(DataChars + Slack))

\* what follows the body: nothing, padding, a character outside every
\* base64 alphabet, white space, a URL-safe character, data after padding,
\* white space inside the data
Tails ==
  { << >>, <<"=">>, <<"=", "=">>, <<"!">>, <<" ">>, <<"-">>,
    <<"=", "A">>, <<" ", "B", "=">> }

\* README.md's literal keys and the test's 'invalid'
ReadmePrivateKey ==
  << "n","P","s","e","/","4","z","b","Q","G","x","O","q","A","M","1",
     "4","i","c","W","R","r","u","4","I","6","g","9","s","9","x","d",
     "h","g","9","s","C","Y","2","l","3","c","k","=" >>

ReadmePublicKey ==
  << "Y","3","A","d","H","f","4","M","A","Z","i","3","x","g","C","F",
     "x","i","D","f","y","P","B","N","b","B","Q","K","u","T","q","T",
     "C","o","D","I","/","X","H","r","n","Q","g","=" >>

InvalidKey == << "i","n","v","a","l","i","d" >>

Strings ==
  { Body(n) \o t : n \in BodyLens, t \in Tails }
    \cup {ReadmePrivateKey, ReadmePublicKey, InvalidKey}

\* buffers the random source returns: a fill byte with one byte changed
RandomPositions == (1..VaryPos) \cup {KeyLen}

RandomBuffers ==
  { [i \in 1..KeyLen |-> IF i = p THEN 156 ELSE f] :
      f \in {0, 255}, p \in RandomPositions }

\* the key strings the caller holds after the last call
HeldPrivate ==
  IF op = "generatePrivateKey" /\ ret.kind = "string" THEN {ret.value}
  ELSE IF ret.kind = "pair" THEN {ret.privateKey}
  ELSE {}

HeldKeys ==
  IF ret.kind = "string" THEN {ret.value}
  ELSE IF ret.kind = "pair" THEN {ret.privateKey, ret.publicKey}
  ELSE {}

\* the private key of the call the caller kept
Kept == IF probe.set THEN {probe.arg} ELSE {}

----------------------------------------------------------------------------
(* State machine: one action per exported function *)

NoProbe == [set |-> FALSE, arg |-> NoKey, ret |-> NoOutcome]

Init ==
  /\ op = "none"
  /\ arg = NoKey
  /\ ret = NoOutcome
  /\ entropy = << >>
  /\ curveCalls = 0
  /\ probe = NoProbe
  /\ between = FALSE
  /\ curve \in 1..NumCurves

\* a call made after the kept one
Counted == between' = probe.set

\* a call of derivePublicKey counts unless it repeats the kept one
CountedUnless(s) == IF s \in Kept THEN UNCHANGED between ELSE Counted

GeneratePrivateKey ==
  \E rnd \in RandomBuffers :
    /\ op' = "generatePrivateKey"
    /\ arg' = NoKey
    /\ ret' = generatePrivateKey(rnd)
    /\ entropy' = rnd
    /\ curveCalls' = ret'.calls
    /\ Counted
    /\ UNCHANGED <<probe, curve>>

DerivePublicKey ==
  \E s \in Strings \cup HeldPrivate \cup Kept :
    /\ op' = "derivePublicKey"
    /\ arg' = s
    /\ ret' = derivePublicKey(s)
    /\ entropy' = << >>
    /\ curveCalls' = ret'.calls
    /\ CountedUnless(s)
    /\ UNCHANGED <<probe, curve>>

\* derivePublicKey of a private key the caller holds, the caller keeping
\* the key and the outcome to compare later calls with (as the test does)
DerivePublicKeyKept ==
  \E s \in HeldPrivate \cup {ReadmePrivateKey} :
    /\ ~probe.set
    /\ op' = "derivePublicKey"
    /\ arg' = s
    /\ ret' = derivePublicKey(s)
    /\ entropy' = << >>
    /\ curveCalls' = ret'.calls
    /\ probe' = [set |-> TRUE, arg |-> s, ret |-> ret']
    /\ between' = FALSE
    /\ UNCHANGED curve

ValidatePublicKey ==
  \E s \in Strings \cup HeldKeys :
    /\ op' = "validatePublicKey"
    /\ arg' = s
    /\ ret' = validatePublicKey(s)
    /\ entropy' = << >>
    /\ curveCalls' = ret'.calls
    /\ Counted
    /\ UNCHANGED <<probe, curve>>

GenerateWireguardKeyPair ==
  \E rnd \in RandomBuffers :
    /\ op' = "generateWireguardKeyPair"
    /\ arg' = NoKey
    /\ ret' = generateWireguardKeyPair(rnd)
    /\ entropy' = rnd
    /\ curveCalls' = ret'.calls
    /\ Counted
    /\ UNCHANGED <<probe, curve>>

\* calls in any order, each looked at on its own
Next ==
  \/ GeneratePrivateKey
  \/ DerivePublicKey
  \/ ValidatePublicKey
  \/ GenerateWireguardKeyPair

Spec == Init /\ [][Next]_vars

\* the same calls, the caller keeping one derivePublicKey call
NextKept ==
  \/ GeneratePrivateKey
  \/ DerivePublicKey
  \/ DerivePublicKeyKept
  \/ ValidatePublicKey
  \/ GenerateWireguardKeyPair

SpecKept == Init /\ [][NextKept]_vars

----------------------------------------------------------------------------
(* What the specification calls base64 *)

\* number of '=' ending s, two at most
Pads(s) ==
  LET n == Len(s)
  IN IF n >= 1 /\ s[n] = "="
     THEN (IF n >= 2 /\ s[n - 1] = "=" THEN 2 ELSE 1)
     ELSE 0

\* standard base64: characters of the standard alphabet in groups of four,
\* the last group ending with at most two '='
IsBase64(s) ==
  /\ Len(s) % 4 = 0
  /\ \A i \in 1..(Len(s) - Pads(s)) : s[i] \in StdChars

\* the number of bytes a standard base64 string stands for
Base64Bytes(s) == (Len(s) \div 4) * 3 - Pads(s)

\* a key string: 43 characters of the standard alphabet and one '='
IsKeyString(s) ==
  /\ Len(s) = KeyChars
  /\ \A i \in 1..(KeyChars - 1) : s[i] \in StdChars
  /\ s[KeyChars] = "="
  /\ IsBase64(s)
  /\ Base64Bytes(s) = KeyLen

----------------------------------------------------------------------------
(* Claims *)

\* C1: validatePublicKey(s) returns true if and only if s is standard base64
\* that decodes to exactly 32 bytes, and false for every other string.
C1_ValidateIffBase64Key ==
  op = "validatePublicKey" =>
    /\ ret.kind = "boolean"
    /\ ret.flag = (IsBase64(arg) /\ Base64Bytes(arg) = KeyLen)

\* C2: for every string that is not valid base64, derivePublicKey fails with
\* an error other than the key-length error and returns no key.
C2_InvalidEncodingError ==
  (op = "derivePublicKey" /\ ~IsBase64(arg)) =>
    (ret.kind = "throw" /\ ret.err # ErrKeyLength)

\* C3: for every base64 string whose decoded length is not 32, derivePublicKey
\* fails with the key-length error without invoking the curve primitive; for a
\* base64 string it returns a key only when the decoded length is 32.
C3_InvalidKeyLength ==
  (op = "derivePublicKey" /\ IsBase64(arg)) =>
    /\ Base64Bytes(arg) # KeyLen =>
         (ret.kind = "throw" /\ ret.err = ErrKeyLength /\ curveCalls = 0)
    /\ ret.kind = "string" => Base64Bytes(arg) = KeyLen

C3_Witness ==
  /\ op = "derivePublicKey"
  /\ IsBase64(arg)
  /\ Base64Bytes(arg) = KeyLen + 1
  /\ ret.kind = "throw"
  /\ curveCalls = 0

\* C4: every pair generateWireguardKeyPair returns satisfies
\* derivePublicKey(pair.privateKey) = pair.publicKey.
C4_PairRoundTrip ==
  (op = "generateWireguardKeyPair" /\ ret.kind = "pair") =>
    LET derived == derivePublicKey(ret.privateKey)
    IN derived.kind = "string" /\ derived.value = ret.publicKey

C4_Witness ==
  /\ op = "generateWireguardKeyPair"
  /\ ret.kind = "pair"
  /\ entropy[KeyLen] = 156
  /\ ret.privateKey = ToBase64(entropy)

C6_KeyStringShape ==
  /\ ret.kind = "string" => IsKeyString(ret.value)
  /\ ret.kind = "pair" => (IsKeyString(ret.privateKey) /\ IsKeyString(ret.publicKey))

C6_Witness ==
  /\ op = "derivePublicKey"
  /\ arg = ReadmePrivateKey
  /\ ret.kind = "string"
  /\ Len(ret.value) = KeyChars

\* C7: a repeated derivePublicKey of a valid private key returns what the
\* kept call returned, whatever calls were made in between.
C7_Deterministic ==
  (op = "derivePublicKey" /\ probe.set /\ arg = probe.arg) =>
    (ret.kind = probe.ret.kind /\ ret.value = probe.ret.value)

C7_Witness ==
  /\ op = "derivePublicKey"
  /\ probe.set
  /\ arg = probe.arg
  /\ arg # ReadmePrivateKey
  /\ between
  /\ ret.kind = "string"

\* C8: validatePublicKey accepts the public key of every generated pair and
\* every string derivePublicKey returns.
C8_DerivedKeysValidate ==
  /\ (op = "derivePublicKey" /\ ret.kind = "string") => validatePublicKey(ret.value).flag
  /\ ret.kind = "pair" => validatePublicKey(ret.publicKey).flag

C8_Witness ==
  /\ op = "validatePublicKey"
  /\ arg \notin Strings
  /\ ret.flag

\* C10: derivePublicKey returns a key for exactly the strings
\* validatePublicKey accepts.
C10_SameAcceptedStrings ==
  op = "derivePublicKey" => (validatePublicKey(arg).flag <=> ret.kind = "string")

====
